---- MODULE Spec2Model ----
(***************************************************************************)
(* clang-indexer (src/clang-indexer/main.cc): the parallel build / merge   *)
(* pipeline of the cross-reference index.  main creates the global Index,  *)
(* readSourcesJson submits one indexSourceFile task per descriptor record  *)
(* to the thread pool, awaits the futures in submission order, merges each *)
(* per-file Index into the global one and deletes it; main then sets the   *)
(* global Index read-only and saves it.                                    *)
(*                                                                         *)
(* libindexdb (IndexDb.h: Index, StringTable, Table, Row) is not part of   *)
(* the sources at hand; its operations are modelled from the design        *)
(* document (sections 3, 4.3 and 4.4).                                     *)
(***************************************************************************)
EXTENDS Integers, Sequences, FiniteSets, TLC

(***************************************************************************)
(* Bounds of the model.                                                    *)
(***************************************************************************)
\* Longest descriptor (number of records of btrace.sources).
MaxFiles == 3
\* Threads of the global thread pool QtConcurrent::run submits to.
PoolSize == 2
\* Longest node sequence of the synthetic translation units fed to merge.
MaxNodes == 2
\* Most nodes of a translation unit whose extraction is followed step by step.
MaxAst == 3

\* The most compiler arguments (defines, includes, extra arguments) of a record.
MaxArgs == 1

(***************************************************************************)
(* libindexdb: Index, StringTable, Table.                                  *)
(* An Index is [st, tb, ro]: st maps a string table's name to its strings  *)
(* in ID order (ID k is position k+1), tb maps a table's name to           *)
(* [cols, rows], cols naming per column the string table it refers to      *)
(* ("" for a raw integer column), ro the read-only flag.                   *)
(***************************************************************************)
NoTables == [n \in {} |-> <<>>]

\* indexdb::Index::Index(): no string table, no table, mutable.
Index == [st |-> NoTables, tb |-> NoTables, ro |-> FALSE]

\* Index::addStringTable(name): registers an empty string table; a name
\* already registered is refused.
addStringTable(ix, name) ==
    IF ix.ro \/ name \in DOMAIN ix.st
      THEN ix
      ELSE [ix EXCEPT !.st = (name :> <<>>) @@ ix.st]

\* Index::addTable(name, columnNames): registers an empty table.
addTable(ix, name, cols) ==
    IF ix.ro \/ name \in DOMAIN ix.tb
      THEN ix
      ELSE [ix EXCEPT !.tb = (name :> [cols |-> cols, rows |-> <<>>]) @@ ix.tb]

\* Whether string s is in the string table strs.
Has(strs, s) == \E k \in 1..Len(strs) : strs[k] = s

\* The ID of s in strs (0-based, dense, in first-insertion order).
IdOf(strs, s) == (CHOOSE k \in 1..Len(strs) : strs[k] = s) - 1

\* StringTable::insert(string), the table afterwards: insert-or-get.
InsertStr(strs, s) == IF Has(strs, s) THEN strs ELSE Append(strs, s)

\* StringTable::insert on string table `name` of ix: the Index afterwards.
\* Refused on a read-only Index and on a table that is not registered.
insert(ix, name, s) ==
    IF ix.ro \/ name \notin DOMAIN ix.st
      THEN ix
      ELSE [ix EXCEPT !.st[name] = InsertStr(@, s)]

\* The ID StringTable::insert returns.
insertID(ix, name, s) == IdOf(InsertStr(ix.st[name], s), s)

\* Table::add(row) on table `name` of ix: appends; a row whose width is not
\* the schema's is refused.
add(ix, name, row) ==
    IF ix.ro \/ name \notin DOMAIN ix.tb
      THEN ix
      ELSE IF Len(row) # Len(ix.tb[name].cols)
             THEN ix
             ELSE [ix EXCEPT !.tb[name].rows = Append(@, row)]

\* Index::setReadOnly(): irreversible.
setReadOnly(ix) == [ix EXCEPT !.ro = TRUE]

(***************************************************************************)
(* Merge Engine: Index::merge(other), design document section 4.4.         *)
(***************************************************************************)
\* Step 1 on one string table: src's strings inserted in ID order, from
\* position k on.
RECURSIVE InsertAll(_, _, _)
InsertAll(strs, src, k) ==
    IF k > Len(src) THEN strs ELSE InsertAll(InsertStr(strs, src[k]), src, k + 1)

\* The string table names present in both Indexes.
CommonSt(dst, src) == DOMAIN dst.st \cap DOMAIN src.st

\* The destination's string tables after step 1.
MergedSt(dst, src) ==
    [n \in DOMAIN dst.st |->
        IF n \in DOMAIN src.st THEN InsertAll(dst.st[n], src.st[n], 1) ELSE dst.st[n]]

\* The translation maps sourceID -> destinationID, per common string table
\* (position k holds the destination ID of source ID k-1).
Xlat(dst, src) ==
    [n \in CommonSt(dst, src) |->
        [k \in 1..Len(src.st[n]) |-> IdOf(MergedSt(dst, src)[n], src.st[n][k])]]

\* One source row translated: a foreign-key column goes through its string
\* table's translation map, a raw column passes through unchanged.
TranslateRow(cols, row, xl) ==
    [c \in 1..Len(row) |->
        IF c <= Len(cols) /\ cols[c] # "" /\ cols[c] \in DOMAIN xl
          THEN IF row[c] + 1 \in 1..Len(xl[cols[c]])
                 THEN xl[cols[c]][row[c] + 1]
                 ELSE row[c]
          ELSE row[c]]

\* A merge that appends the source rows without translating them.
merge_untranslated(dst, src) ==
    IF dst.ro
      THEN dst
      ELSE [st |-> MergedSt(dst, src),
            tb |-> [t \in DOMAIN dst.tb |->
                      IF t \in DOMAIN src.tb
                        THEN [dst.tb[t] EXCEPT !.rows = @ \o src.tb[t].rows]
                        ELSE dst.tb[t]],
            ro |-> dst.ro]

\* Index::merge(other): dst after src was merged into it.  Refused on a
\* read-only destination.
merge(dst, src) ==
    IF dst.ro
      THEN dst
      ELSE [st |-> MergedSt(dst, src),
            tb |-> [t \in DOMAIN dst.tb |->
                      IF t \in DOMAIN src.tb
                        THEN [dst.tb[t] EXCEPT !.rows =
                                @ \o [r \in 1..Len(src.tb[t].rows) |->
                                        TranslateRow(src.tb[t].cols, src.tb[t].rows[r],
                                                     Xlat(dst, src))]]
                        ELSE dst.tb[t]],
            ro |-> dst.ro]

\* Table `t` of ix with every foreign-key column resolved to its string
\* (the debug export's join); no rows when ix has no such table.
Resolved(ix, t) ==
    IF t \notin DOMAIN ix.tb
      THEN <<>>
      ELSE [r \in 1..Len(ix.tb[t].rows) |->
              [c \in 1..Len(ix.tb[t].cols) |->
                 IF ix.tb[t].cols[c] = ""
                   THEN <<"raw", ix.tb[t].rows[r][c]>>
                   ELSE <<ix.tb[t].cols[c],
                          ix.st[ix.tb[t].cols[c]][ix.tb[t].rows[r][c] + 1]>>]]

\* The range of a sequence.
Range(s) == { s[k] : k \in 1..Len(s) }

(***************************************************************************)
(* clang-indexer: newIndex, TUIndexer::visitor, indexSourceFile.           *)
(***************************************************************************)
\* The schema newIndex registers.
RefColumns == <<"usr", "path", "", "", "kind">>
LocColumns == <<"path", "", "", "usr">>

\* newIndex(): a fresh Index with string tables path, kind, usr and tables
\* ref and loc.
newIndex ==
    addTable(
      addTable(
        addStringTable(addStringTable(addStringTable(Index, "path"), "kind"), "usr"),
        "ref", RefColumns),
      "loc", LocColumns)

\* A C string the frontend hands out is <<>> (NULL) or <<s>>.
nullToBlank(string) == IF string # <<>> THEN string[1] ELSE ""

\* A cursor (AST node) is [usr, ref, kind, file, line, column, depth]:
\* usr its own USR, ref <<>> for a null referenced cursor or <<u>> with u
\* the referenced cursor's USR, kind and file C strings, depth its depth
\* below the translation unit cursor (the nodes of a translation unit are
\* listed in depth-first pre-order).
\* A visitor that always records the node's own USR.
cursorUSR_own(cursor) == cursor.usr

\* visitor, lines 42-49: the USR it records.
cursorUSR(cursor) == IF cursor.ref # <<>> THEN cursor.ref[1] ELSE cursor.usr

\* A reference row without the kind column.
refRow_noKind(usrID, fileNameID, line, column, kindID) ==
    <<usrID, fileNameID, line, column>>

\* visitor, lines 69-74: the reference row.
refRow(usrID, fileNameID, line, column, kindID) ==
    <<usrID, fileNameID, line, column, kindID>>

\* A location row with the identifier first and the file last.
locRow_swapped(usrID, fileNameID, line, column) ==
    <<usrID, line, column, fileNameID>>

\* visitor, lines 79-83: the location row.
locRow(usrID, fileNameID, line, column) ==
    <<fileNameID, line, column, usrID>>

\* TUIndexer::visitor(cursor, parent): the per-file Index afterwards.
visitor(ix, cursor) ==
    LET usrCStr == cursorUSR(cursor)
    IN  IF usrCStr # ""
          THEN LET fileNameCStr == nullToBlank(cursor.file)
                   kindCStr == nullToBlank(cursor.kind)
                   ix1 == insert(ix, "usr", usrCStr)
                   usrID == insertID(ix, "usr", usrCStr)
                   ix2 == insert(ix1, "path", fileNameCStr)
                   fileNameID == insertID(ix1, "path", fileNameCStr)
                   ix3 == insert(ix2, "kind", kindCStr)
                   kindID == insertID(ix2, "kind", kindCStr)
               IN  add(add(ix3, "ref",
                           refRow(usrID, fileNameID, cursor.line, cursor.column, kindID)),
                       "loc", locRow(usrID, fileNameID, cursor.line, cursor.column))
          ELSE ix

\* A visitor that does not descend below a node it recorded.
visitorResult_prune(cursor) ==
    IF cursorUSR(cursor) # "" THEN "Continue" ELSE "Recurse"

\* What visitor returns to clang_visitChildren.
visitorResult(cursor) == "Recurse"

\* The next node after k that is not below node k.
RECURSIVE SkipSubtree(_, _, _)
SkipSubtree(nodes, d, k) ==
    IF k > Len(nodes) \/ nodes[k].depth <= d THEN k ELSE SkipSubtree(nodes, d, k + 1)

\* clang_visitChildren(tuCursor, visitor, &indexer) from node k on.
RECURSIVE visitChildren(_, _, _)
visitChildren(ix, nodes, k) ==
    IF k > Len(nodes)
      THEN ix
      ELSE LET after == visitor(ix, nodes[k])
               res == visitorResult(nodes[k])
           IN  IF res = "Break"
                 THEN after
                 ELSE IF res = "Continue"
                        THEN visitChildren(after, nodes,
                                           SkipSubtree(nodes, nodes[k].depth, k + 1))
                        ELSE visitChildren(after, nodes, k + 1)

\* indexSourceFile(sfi): the per-file Index it returns.  sfi is
\* [path, parses, ast]: parses says whether clang_parseTranslationUnit
\* returns a translation unit, ast lists its nodes.
indexSourceFile(sfi) ==
    IF ~sfi.parses
      THEN newIndex
      ELSE setReadOnly(visitChildren(newIndex, sfi.ast, 1))

(***************************************************************************)
(* Inputs: what the frontend yields for the files a descriptor may name.   *)
(***************************************************************************)
Node(usr, ref, kind, file, line, column, depth) ==
    [usr |-> usr, ref |-> ref, kind |-> kind, file |-> file,
     line |-> line, column |-> column, depth |-> depth]

\* a.c defines f and calls it: two nodes resolving to "f", and a statement
\* node that denotes no declaration.
FileA ==
    [path |-> "a.c", parses |-> TRUE,
     ast |-> << Node("f", <<"f">>, <<"FunctionDecl">>, <<"a.c">>, 1, 1, 1),
                Node("", <<>>, <<"CompoundStmt">>, <<"a.c">>, 1, 10, 2),
                Node("", <<"f">>, <<"CallExpr">>, <<"a.c">>, 2, 3, 3) >>]

\* b.c defines g, calls f, and has a node whose file name is NULL.
FileB ==
    [path |-> "b.c", parses |-> TRUE,
     ast |-> << Node("g", <<>>, <<"FunctionDecl">>, <<"b.c">>, 1, 1, 1),
                Node("", <<"f">>, <<"CallExpr">>, <<"b.c">>, 2, 3, 2),
                Node("", <<"g">>, <<"CallExpr">>, <<>>, 0, 0, 2) >>]

\* bad.c does not parse.
FileBad == [path |-> "bad.c", parses |-> FALSE, ast |-> <<>>]

SourceFiles == {FileA, FileB, FileBad}

\* indexSourceFile tabulated over the files a descriptor can name.
IndexOfFile == [sfi \in SourceFiles |-> indexSourceFile(sfi)]

\* The sequences over S of length at most n.
SeqUpTo(S, n) == UNION { [1..k -> S] : k \in 0..n }

\* The descriptors: at most MaxFiles records.
Descriptors == SeqUpTo(SourceFiles, MaxFiles)

(***************************************************************************)
(* The pipeline: main, readSourcesJson, the thread pool.                   *)
(***************************************************************************)
VARIABLES
    pc,          \* the main thread's next statement
    descStatus,  \* btrace.sources: "ok", "unreadable" or "malformed"
    descFile,    \* the records Json::Reader::parse leaves in rootJson
    root,        \* rootJson
    nsub,        \* paths.size(): the tasks submitted so far
    i,           \* the index of readSourcesJson's second loop
    task,        \* per task: [st, by], its state and the thread running it
    result,      \* per task: the address its future holds
    heap,        \* address -> [status, obj]: the Index objects
    fileIndex,   \* readSourcesJson's local fileIndex
    saved,       \* the Indexes written to the file "index", in order
    exitCode,    \* -1 while the process runs, then main's return value
    dispatched,  \* history: whether any task was ever submitted
    awaited,     \* history: the tasks whose result() returned, in order
    merged,      \* history: the tasks whose Index was merged, in order
    outOfOrder,  \* history: a task completed before an earlier one
    m,           \* the Merge Engine run on its own: [a, b, dst, ab, ba, nab, nba]
    x            \* one extraction followed step by step:
                 \* [ast, k, ix, visited, phase, g]

vars == <<pc, descStatus, descFile, root, nsub, i, task, result, heap,
          fileIndex, saved, exitCode, dispatched, awaited, merged, outOfOrder, m, x>>

Tasks == 0..(MaxFiles - 1)

\* Addresses: the global Index lives at 0, task t's Index at t + 1.
GlobalAddr == 0
FileAddr(t) == t + 1
Addrs == 0..MaxFiles

\* The number of records of rootJson.
N == Len(root)

\* main, line 242: the global Index is a bare indexdb::Index.
mainIndex == Index

\* Tasks that all write into the Index of the first task.
TaskOutput_shared(t) == FileAddr(0)

\* A task that writes into the global Index instead of one of its own.
TaskOutput_global(t) == GlobalAddr

\* indexSourceFile, lines 169 and 175: the Index a task writes and returns
\* is freshly allocated by its own newIndex() call.
TaskOutput(t) == FileAddr(t)

\* Collection in reverse submission order.
CollectIndex_reverse(k) == nsub - 1 - k

\* Collection that awaits the future after the one it should.
CollectIndex_offByOne(k) == k + 1

\* readSourcesJson, line 225: iteration k awaits fileIndices[k].
CollectIndex(k) == k

\* main saving before it sets the Index read-only.
MainSteps_saveFirst == <<"save", "setReadOnly", "return">>

\* main, lines 244-246, the statements after readSourcesJson returns.
MainSteps == <<"setReadOnly", "save", "return">>

\* The statement after statement s of main's tail.
AfterStep(s) ==
    LET k == CHOOSE j \in 1..Len(MainSteps) : MainSteps[j] = s
    IN  IF k < Len(MainSteps) THEN MainSteps[k + 1] ELSE "done"

\* What Json::Reader::parse leaves in rootJson; its return value is not
\* looked at (line 236).  An unreadable file leaves the null value, which
\* has no elements.
ParsedRoot == IF descStatus = "unreadable" THEN <<>> ELSE descFile

\* The Merge Engine's own run, not started.
MergeIdle == [a |-> Index, b |-> Index, dst |-> Index, ab |-> Index, ba |-> Index,
              nab |-> 2, nba |-> 2]

\* A resource of indexSourceFile (a strdup'ed buffer, the CXIndex, the
\* CXTranslationUnit): whether it was acquired and how often it was released.
NotAcquired == [acquired |-> FALSE, released |-> 0]
Acquired == [acquired |-> TRUE, released |-> 0]
Release(r) == [r EXCEPT !.released = @ + 1]

\* The step-by-step extraction, not started.
ExtractIdle == [parses |-> TRUE, nargs |-> 0, ast |-> <<>>, k |-> 1, ix |-> Index,
                visited |-> <<>>, phase |-> "off", g |-> Index,
                args |-> <<>>, cxindex |-> NotAcquired, tu |-> NotAcquired]

Init ==
    /\ pc = "main"
    /\ descStatus \in {"ok", "unreadable", "malformed"}
    /\ descFile \in Descriptors
    /\ descStatus = "unreadable" => descFile = <<>>
    /\ root = <<>>
    /\ nsub = 0
    /\ i = 0
    /\ task = [t \in Tasks |-> [st |-> "none", by |-> "none"]]
    /\ result = [t \in Tasks |-> GlobalAddr]
    /\ heap = [a \in Addrs |-> [status |-> "unalloc", obj |-> Index]]
    /\ fileIndex = GlobalAddr
    /\ saved = <<>>
    /\ exitCode = -1
    /\ dispatched = FALSE
    /\ awaited = <<>>
    /\ merged = <<>>
    /\ outOfOrder = FALSE
    /\ m = MergeIdle
    /\ x = ExtractIdle

\* main, line 242.
NewGlobal ==
    /\ pc = "main"
    /\ heap' = [heap EXCEPT ![GlobalAddr] = [status |-> "alloc", obj |-> mainIndex]]
    /\ pc' = "read"
    /\ UNCHANGED <<descStatus, descFile, root, nsub, i, task, result, fileIndex,
                   saved, exitCode, dispatched, awaited, merged, outOfOrder, m, x>>

\* readSourcesJson(filename, index), lines 233-236, up to the call of
\* readSourcesJson(rootJson, index).
ReadDescriptor ==
    /\ pc = "read"
    /\ root' = ParsedRoot
    /\ pc' = IF Len(ParsedRoot) = 0 THEN MainSteps[1] ELSE "dispatch"
    /\ UNCHANGED <<descStatus, descFile, nsub, i, task, result, heap, fileIndex,
                   saved, exitCode, dispatched, awaited, merged, outOfOrder, m, x>>

\* A first loop that is left after its first submission.
Dispatch_early ==
    /\ pc = "dispatch"
    /\ nsub < N
    /\ task' = [task EXCEPT ![nsub] = [st |-> "queued", by |-> "none"]]
    /\ nsub' = nsub + 1
    /\ dispatched' = TRUE
    /\ i' = 0
    /\ pc' = "await"
    /\ UNCHANGED <<descStatus, descFile, root, result, heap, fileIndex,
                   saved, exitCode, awaited, merged, outOfOrder, m, x>>

\* One iteration of the first loop, lines 211-221: the task is queued on
\* the thread pool.
Dispatch ==
    /\ pc = "dispatch"
    /\ nsub < N
    /\ task' = [task EXCEPT ![nsub] = [st |-> "queued", by |-> "none"]]
    /\ nsub' = nsub + 1
    /\ dispatched' = TRUE
    /\ i' = 0
    /\ pc' = IF nsub + 1 = N THEN "await" ELSE "dispatch"
    /\ UNCHANGED <<descStatus, descFile, root, result, heap, fileIndex,
                   saved, exitCode, awaited, merged, outOfOrder, m, x>>

\* The tasks a pool thread is running.
RunningOnPool == { t \in Tasks : task[t].st = "running" /\ task[t].by = "worker" }

\* A pool that starts no task while the main thread waits in result().
TaskStart_blocked(t) ==
    /\ pc # "await"
    /\ task[t].st = "queued"
    /\ Cardinality(RunningOnPool) < PoolSize
    /\ task' = [task EXCEPT ![t] = [st |-> "running", by |-> "worker"]]
    /\ UNCHANGED <<pc, descStatus, descFile, root, nsub, i, result, heap, fileIndex,
                   saved, exitCode, dispatched, awaited, merged, outOfOrder, m, x>>

\* A pool thread takes a queued task and enters indexSourceFile.
TaskStart(t) ==
    /\ task[t].st = "queued"
    /\ Cardinality(RunningOnPool) < PoolSize
    /\ task' = [task EXCEPT ![t] = [st |-> "running", by |-> "worker"]]
    /\ UNCHANGED <<pc, descStatus, descFile, root, nsub, i, result, heap, fileIndex,
                   saved, exitCode, dispatched, awaited, merged, outOfOrder, m, x>>

\* Whether task t completing now completes before an earlier task.
Overtakes(t) == \E u \in Tasks : u < t /\ task[u].st \in {"queued", "running"}

\* indexSourceFile returns on a pool thread: the future holds its Index.
TaskFinish(t) ==
    /\ task[t].st = "running"
    /\ task' = [task EXCEPT ![t].st = "done"]
    /\ heap' = [heap EXCEPT ![TaskOutput(t)] =
                  [status |-> "alloc", obj |-> IndexOfFile[root[t + 1]]]]
    /\ result' = [result EXCEPT ![t] = TaskOutput(t)]
    /\ outOfOrder' = (outOfOrder \/ Overtakes(t))
    /\ UNCHANGED <<pc, descStatus, descFile, root, nsub, i, fileIndex,
                   saved, exitCode, dispatched, awaited, merged, m, x>>

\* QFuture::result() on a task no pool thread has taken yet: the waiting
\* (main) thread runs indexSourceFile itself.
StealRun ==
    /\ pc = "await"
    /\ CollectIndex(i) \in Tasks
    /\ task[CollectIndex(i)].st = "queued"
    /\ task' = [task EXCEPT ![CollectIndex(i)] = [st |-> "done", by |-> "main"]]
    /\ heap' = [heap EXCEPT ![TaskOutput(CollectIndex(i))] =
                  [status |-> "alloc",
                   obj |-> IndexOfFile[root[CollectIndex(i) + 1]]]]
    /\ result' = [result EXCEPT ![CollectIndex(i)] = TaskOutput(CollectIndex(i))]
    /\ outOfOrder' = (outOfOrder \/ Overtakes(CollectIndex(i)))
    /\ UNCHANGED <<pc, descStatus, descFile, root, nsub, i, fileIndex,
                   saved, exitCode, dispatched, awaited, merged, m, x>>

\* Line 225: fileIndices[i].result() returns once task i has finished.
Await ==
    /\ pc = "await"
    /\ CollectIndex(i) \in Tasks
    /\ task[CollectIndex(i)].st = "done"
    /\ fileIndex' = result[CollectIndex(i)]
    /\ awaited' = Append(awaited, CollectIndex(i))
    /\ pc' = "merge"
    /\ UNCHANGED <<descStatus, descFile, root, nsub, i, task, result, heap,
                   saved, exitCode, dispatched, merged, outOfOrder, m, x>>

\* Line 226: index->merge(*fileIndex) is entered ...
MergeBegin ==
    /\ pc = "merge"
    /\ pc' = "merging"
    /\ UNCHANGED <<descStatus, descFile, root, nsub, i, task, result, heap, fileIndex,
                   saved, exitCode, dispatched, awaited, merged, outOfOrder, m, x>>

\* ... and returns.
MergeEnd ==
    /\ pc = "merging"
    /\ heap' = [heap EXCEPT ![GlobalAddr].obj = merge(@, heap[fileIndex].obj)]
    /\ merged' = Append(merged, CollectIndex(i))
    /\ pc' = "delete"
    /\ UNCHANGED <<descStatus, descFile, root, nsub, i, task, result, fileIndex,
                   saved, exitCode, dispatched, awaited, outOfOrder, m, x>>

\* A loop that goes on without deleting the Index it merged.
Delete_noFree ==
    /\ pc = "delete"
    /\ i' = i + 1
    /\ pc' = IF i + 1 < nsub THEN "await" ELSE MainSteps[1]
    /\ UNCHANGED <<descStatus, descFile, root, nsub, task, result, heap, fileIndex,
                   saved, exitCode, dispatched, awaited, merged, outOfOrder, m, x>>

\* Line 227 and the loop's increment and test.
Delete ==
    /\ pc = "delete"
    /\ heap' = [heap EXCEPT ![fileIndex].status = "freed"]
    /\ i' = i + 1
    /\ pc' = IF i + 1 < nsub THEN "await" ELSE MainSteps[1]
    /\ UNCHANGED <<descStatus, descFile, root, nsub, task, result, fileIndex,
                   saved, exitCode, dispatched, awaited, merged, outOfOrder, m, x>>

\* main, line 244.
SetReadOnly ==
    /\ pc = "setReadOnly"
    /\ heap' = [heap EXCEPT ![GlobalAddr].obj = setReadOnly(@)]
    /\ pc' = AfterStep("setReadOnly")
    /\ UNCHANGED <<descStatus, descFile, root, nsub, i, task, result, fileIndex,
                   saved, exitCode, dispatched, awaited, merged, outOfOrder, m, x>>

\* main, line 245: Index::save writes the whole Index.
Save ==
    /\ pc = "save"
    /\ saved' = Append(saved, heap[GlobalAddr].obj)
    /\ pc' = AfterStep("save")
    /\ UNCHANGED <<descStatus, descFile, root, nsub, i, task, result, heap, fileIndex,
                   exitCode, dispatched, awaited, merged, outOfOrder, m, x>>

\* main, line 246.
Return ==
    /\ pc = "return"
    /\ exitCode' = 0
    /\ pc' = AfterStep("return")
    /\ UNCHANGED <<descStatus, descFile, root, nsub, i, task, result, heap, fileIndex,
                   saved, dispatched, awaited, merged, outOfOrder, m, x>>

Next ==
    \/ NewGlobal
    \/ ReadDescriptor
    \/ Dispatch
    \/ \E t \in Tasks : TaskStart(t)
    \/ \E t \in Tasks : TaskFinish(t)
    \/ StealRun
    \/ Await
    \/ MergeBegin
    \/ MergeEnd
    \/ Delete
    \/ SetReadOnly
    \/ Save
    \/ Return

Spec == Init /\ [][Next]_vars

(***************************************************************************)
(* The Merge Engine on its own: two per-file Indexes A and B merged into   *)
(* an empty destination in both orders.                                    *)
(***************************************************************************)
\* The nodes the synthetic translation units are made of: the definition
\* of f and a statement of a.c, the definition of g and the call of f of
\* b.c.
NodePool == {FileA.ast[1], FileA.ast[2], FileB.ast[1], FileB.ast[2]}

\* The per-file Indexes indexSourceFile returns for the translation units
\* of at most MaxNodes nodes, and for a file that does not parse.
MergeInputs ==
    { indexSourceFile([path |-> "x.c", parses |-> TRUE, ast |-> s]) :
        s \in SeqUpTo(NodePool, MaxNodes) }
    \cup { indexSourceFile(FileBad) }

\* The empty destinations: main's bare Index and newIndex()'s.
EmptyDestinations == {mainIndex, newIndex}

InitMerge ==
    /\ pc = "off"
    /\ descStatus = "ok"
    /\ descFile = <<>>
    /\ root = <<>>
    /\ nsub = 0
    /\ i = 0
    /\ task = [t \in Tasks |-> [st |-> "none", by |-> "none"]]
    /\ result = [t \in Tasks |-> GlobalAddr]
    /\ heap = [a \in Addrs |-> [status |-> "unalloc", obj |-> Index]]
    /\ fileIndex = GlobalAddr
    /\ saved = <<>>
    /\ exitCode = -1
    /\ dispatched = FALSE
    /\ awaited = <<>>
    /\ merged = <<>>
    /\ outOfOrder = FALSE
    /\ x = ExtractIdle
    /\ \E a \in MergeInputs, b \in MergeInputs, d \in EmptyDestinations :
          m = [a |-> a, b |-> b, dst |-> d, ab |-> d, ba |-> d, nab |-> 0, nba |-> 0]

\* The next merge of the run that merges A, then B.
MergeAB ==
    /\ m.nab < 2
    /\ m' = [m EXCEPT !.ab = merge(@, IF m.nab = 0 THEN m.a ELSE m.b),
                      !.nab = @ + 1]
    /\ UNCHANGED <<pc, descStatus, descFile, root, nsub, i, task, result, heap,
                   fileIndex, saved, exitCode, dispatched, awaited, merged, outOfOrder, x>>

\* The next merge of the run that merges B, then A.
MergeBA ==
    /\ m.nba < 2
    /\ m' = [m EXCEPT !.ba = merge(@, IF m.nba = 0 THEN m.b ELSE m.a),
                      !.nba = @ + 1]
    /\ UNCHANGED <<pc, descStatus, descFile, root, nsub, i, task, result, heap,
                   fileIndex, saved, exitCode, dispatched, awaited, merged, outOfOrder, x>>

NextMerge == MergeAB \/ MergeBA

SpecMerge == InitMerge /\ [][NextMerge]_vars

(***************************************************************************)
(* One extraction on its own: clang_visitChildren calling visitor node by  *)
(* node on a fresh per-file Index, setReadOnly, and the merge of the       *)
(* result into a destination.                                              *)
(***************************************************************************)
\* What a cursor can be: the definition of f, a statement, a call of f, the
\* definition of g (no referenced cursor), a reference to g at a location
\* with no file name, and a node with a USR of its own whose referenced
\* cursor has none.
CursorPool ==
    { Node("f", <<"f">>, <<"FunctionDecl">>, <<"a.c">>, 1, 1, 1),
      Node("", <<>>, <<"CompoundStmt">>, <<"a.c">>, 1, 10, 1),
      Node("", <<"f">>, <<"CallExpr">>, <<"a.c">>, 2, 3, 1),
      Node("g", <<>>, <<"FunctionDecl">>, <<"b.c">>, 1, 1, 1),
      Node("", <<"g">>, <<"CallExpr">>, <<>>, 0, 0, 1),
      Node("h", <<"">>, <<"DeclRefExpr">>, <<"a.c">>, 3, 1, 1) }

\* The depths of a depth-first pre-order listing of n nodes below the
\* translation unit cursor: the first is a child of it, each next one is at
\* most one level below its predecessor.
PreOrderDepths(n) ==
    { d \in [1..n -> 1..n] :
        /\ n > 0 => d[1] = 1
        /\ \A k \in 1..(n - 1) : d[k + 1] <= d[k] + 1 }

\* The translation units of at most MaxAst nodes.
Asts ==
    UNION { { [k \in 1..n |-> [c[k] EXCEPT !.depth = d[k]]] :
                c \in [1..n -> CursorPool], d \in PreOrderDepths(n) } :
            n \in 0..MaxAst }

\* The destinations the extracted Index is merged into: main's bare Index,
\* and an Index with the schema that already holds the facts of b.c.
ExtractDestinations == {mainIndex, merge(newIndex, IndexOfFile[FileB])}

\* The files the extraction is followed on: one that parses, with any of
\* the translation units, and one that does not; each with up to MaxArgs
\* compiler arguments.
InitExtract ==
    /\ pc = "off"
    /\ descStatus = "ok"
    /\ descFile = <<>>
    /\ root = <<>>
    /\ nsub = 0
    /\ i = 0
    /\ task = [t \in Tasks |-> [st |-> "none", by |-> "none"]]
    /\ result = [t \in Tasks |-> GlobalAddr]
    /\ heap = [a \in Addrs |-> [status |-> "unalloc", obj |-> Index]]
    /\ fileIndex = GlobalAddr
    /\ saved = <<>>
    /\ exitCode = -1
    /\ dispatched = FALSE
    /\ awaited = <<>>
    /\ merged = <<>>
    /\ outOfOrder = FALSE
    /\ m = MergeIdle
    /\ \E p \in BOOLEAN, n \in 0..MaxArgs, a \in Asts :
          /\ ~p => a = <<>>
          /\ x = [ExtractIdle EXCEPT !.parses = p, !.nargs = n, !.ast = a,
                                     !.phase = "start"]

\* indexSourceFile, lines 140-153: the arguments are strdup'ed and the
\* CXIndex is created.
StartExtract ==
    /\ x.phase = "start"
    /\ x' = [x EXCEPT !.args = [k \in 1..x.nargs |-> Acquired],
                      !.cxindex = Acquired,
                      !.phase = "parse"]
    /\ UNCHANGED <<pc, descStatus, descFile, root, nsub, i, task, result, heap,
                   fileIndex, saved, exitCode, dispatched, awaited, merged,
                   outOfOrder, m>>

\* Lines 154-181: clang_parseTranslationUnit returns a translation unit;
\* indexer.index = newIndex().
ParseOK ==
    /\ x.phase = "parse"
    /\ x.parses
    /\ x' = [x EXCEPT !.tu = Acquired, !.ix = newIndex, !.phase = "visit"]
    /\ UNCHANGED <<pc, descStatus, descFile, root, nsub, i, task, result, heap,
                   fileIndex, saved, exitCode, dispatched, awaited, merged,
                   outOfOrder, m>>

\* Lines 154-170: clang_parseTranslationUnit returns NULL; the message is
\* written and newIndex() is returned.
ParseFail ==
    /\ x.phase = "parse"
    /\ ~x.parses
    /\ x' = [x EXCEPT !.ix = newIndex, !.phase = "returned"]
    /\ UNCHANGED <<pc, descStatus, descFile, root, nsub, i, task, result, heap,
                   fileIndex, saved, exitCode, dispatched, awaited, merged,
                   outOfOrder, m>>

\* The node clang_visitChildren goes to after node k, given what visitor
\* returned for it.
NextNode(nodes, k) ==
    IF visitorResult(nodes[k]) = "Break"
      THEN Len(nodes) + 1
      ELSE IF visitorResult(nodes[k]) = "Continue"
             THEN SkipSubtree(nodes, nodes[k].depth, k + 1)
             ELSE k + 1

\* clang_visitChildren calls visitor on the next node (line 184).
VisitNode ==
    /\ x.phase = "visit"
    /\ x.k <= Len(x.ast)
    /\ x' = [x EXCEPT !.ix = visitor(@, x.ast[x.k]),
                      !.visited = Append(@, x.k),
                      !.k = NextNode(x.ast, x.k)]
    /\ UNCHANGED <<pc, descStatus, descFile, root, nsub, i, task, result, heap,
                   fileIndex, saved, exitCode, dispatched, awaited, merged,
                   outOfOrder, m>>

\* clang_visitChildren returns; indexer.index->setReadOnly() (line 185).
EndVisit ==
    /\ x.phase = "visit"
    /\ x.k > Len(x.ast)
    /\ x' = [x EXCEPT !.ix = setReadOnly(@), !.phase = "readonly"]
    /\ UNCHANGED <<pc, descStatus, descFile, root, nsub, i, task, result, heap,
                   fileIndex, saved, exitCode, dispatched, awaited, merged,
                   outOfOrder, m>>

\* Lines 187-194: the translation unit and the CXIndex are disposed, every
\* argument is freed, indexer.index is returned.
ReleaseAndReturn ==
    /\ x.phase = "readonly"
    /\ x' = [x EXCEPT !.tu = Release(@),
                      !.cxindex = Release(@),
                      !.args = [k \in DOMAIN @ |-> Release(@[k])],
                      !.phase = "returned"]
    /\ UNCHANGED <<pc, descStatus, descFile, root, nsub, i, task, result, heap,
                   fileIndex, saved, exitCode, dispatched, awaited, merged,
                   outOfOrder, m>>

\* The returned Index is merged into the destination (line 226).
MergeExtracted ==
    /\ x.phase = "returned"
    /\ \E d \in ExtractDestinations :
          x' = [x EXCEPT !.g = merge(d, x.ix), !.phase = "merged"]
    /\ UNCHANGED <<pc, descStatus, descFile, root, nsub, i, task, result, heap,
                   fileIndex, saved, exitCode, dispatched, awaited, merged,
                   outOfOrder, m>>

NextExtract ==
    \/ StartExtract
    \/ ParseOK
    \/ ParseFail
    \/ VisitNode
    \/ EndVisit
    \/ ReleaseAndReturn
    \/ MergeExtracted

SpecExtract == InitExtract /\ [][NextExtract]_vars

\* The threads keep running: the system does not stop while the main thread
\* or a pool thread has a step to take.
FairSpec == Spec /\ WF_vars(Next)

(***************************************************************************)
(* Helpers of the claims.                                                  *)
(***************************************************************************)
\* The schema of section 3, written out.
SchemaOK(ix) ==
    /\ DOMAIN ix.st = {"path", "kind", "usr"}
    /\ DOMAIN ix.tb = {"ref", "loc"}
    /\ ix.tb["ref"].cols = <<"usr", "path", "", "", "kind">>
    /\ ix.tb["loc"].cols = <<"path", "", "", "usr">>

\* The sequence 0, 1, ..., n-1.
UpTo(n) == [k \in 1..n |-> k - 1]

\* The resolved rows of table t of the files of rootJson that parse.
FactsOfParsed(t) ==
    UNION { Range(Resolved(indexSourceFile(root[k]), t)) :
              k \in { j \in 1..Len(root) : root[j].parses } }

\* The global Index after merging the first k per-file Indexes in order.
RECURSIVE MergedPrefix(_)
MergedPrefix(k) ==
    IF k = 0
      THEN mainIndex
      ELSE merge(MergedPrefix(k - 1), indexSourceFile(root[k]))

\* Whether a string table holds every string once.
NoDuplicates(strs) ==
    \A j, k \in 1..Len(strs) : strs[j] = strs[k] => j = k

(***************************************************************************)
(* The claims.                                                             *)
(***************************************************************************)
\* C1: every Index the program creates, the per-file ones on both paths of
\* indexSourceFile and the global one of main, has the schema path, kind,
\* usr, ref(usr, path, raw, raw, kind), loc(path, raw, raw, usr), and so
\* has every Index that is saved.  Stated as the claim states it; main's
\* Index violates it.
C1_EveryIndexHasTheSchema ==
    /\ \A a \in Addrs : heap[a].status = "alloc" => SchemaOK(heap[a].obj)
    /\ \A k \in 1..Len(saved) : SchemaOK(saved[k])

\* C2: results are awaited and merged strictly in submission order: the
\* awaited tasks and the merged tasks are 0, 1, 2, ... at every moment,
\* result k+1 is awaited only after result k was merged, and at the end all
\* N were merged.
C2_SubmissionOrder ==
    /\ awaited = UpTo(Len(awaited))
    /\ merged = UpTo(Len(merged))
    /\ Len(merged) <= Len(awaited)
    /\ Len(awaited) <= Len(merged) + 1
    /\ pc = "done" => merged = UpTo(N)

\* C2's case: all three results were merged in a run in which a later task
\* completed before an earlier one.
C2_Witness == outOfOrder /\ Len(merged) = 3 /\ pc = "delete"

\* The threads inside an operation that mutates the Index at address a: the
\* main thread during merge, a pool thread for as long as it runs a task
\* that writes there.
Mutators(a) ==
    (IF pc = "merging" /\ a = GlobalAddr THEN {<<"main", 0>>} ELSE {})
    \cup { <<"worker", t>> : t \in { u \in Tasks : /\ task[u].st = "running"
                                                  /\ task[u].by = "worker"
                                                  /\ TaskOutput(u) = a } }

\* C3: at most one thread mutates the global Index, and it is the main
\* thread; no step of a pool thread changes the global Index.
C3_SingleWriter ==
    /\ [](/\ Mutators(GlobalAddr) \subseteq {<<"main", 0>>}
          /\ Cardinality(Mutators(GlobalAddr)) <= 1)
    /\ [][heap'[GlobalAddr] # heap[GlobalAddr]
            => pc \in {"main", "merging", "setReadOnly"} /\ pc' # pc]_vars

\* C3's case: a merge into the global Index is in progress while a pool
\* thread is extracting.
C3_Witness ==
    /\ pc = "merging"
    /\ \E t \in Tasks : task[t].st = "running" /\ task[t].by = "worker"

C5_FailureIsolation ==
    /\ \A t \in Tasks :
          (/\ task[t].st = "done"
           /\ ~root[t + 1].parses
           /\ heap[FileAddr(t)].status = "alloc")
          => /\ SchemaOK(heap[FileAddr(t)].obj)
             /\ \A n \in DOMAIN heap[FileAddr(t)].obj.st :
                   heap[FileAddr(t)].obj.st[n] = <<>>
             /\ \A n \in DOMAIN heap[FileAddr(t)].obj.tb :
                   heap[FileAddr(t)].obj.tb[n].rows = <<>>
    /\ pc = "done" =>
          /\ exitCode = 0
          /\ Len(merged) = N
          /\ Len(saved) = 1
          /\ \A t \in {"ref", "loc"} :
                Range(Resolved(saved[1], t)) = FactsOfParsed(t)

\* C6: under fair scheduling every run ends with every task completed,
\* every result merged, and the global Index saved, and it is never saved
\* twice; a task that completed stays completed.
C6_Terminates ==
    /\ <>(/\ pc = "done"
          /\ \A t \in Tasks : t < N => task[t].st = "done"
          /\ merged = UpTo(N)
          /\ Len(saved) = 1)
    /\ [](Len(saved) <= 1)
    /\ [][\A t \in Tasks : task[t].st = "done" => task'[t].st = "done"]_vars

\* C6's case: a finished run over three files, one of which failed to
\* parse and one of which parsed.
C6_Witness ==
    /\ pc = "done"
    /\ N = 3
    /\ \E j, k \in 1..3 : ~root[j].parses /\ root[k].parses
    /\ Len(saved) = 1

\* C7: with an unreadable or malformed descriptor no task is dispatched,
\* nothing is saved and the exit code is not 0.  Stated as the claim states
\* it; the code saves and returns 0.
C7_FatalStartupError ==
    descStatus \in {"unreadable", "malformed"} =>
        /\ ~dispatched
        /\ saved = <<>>
        /\ exitCode # 0

\* C8: the global Index is saved only read-only and with all N merges done,
\* it is set read-only only after the last merge, what is saved is the
\* global Index as it then is, and it never changes once read-only.
C8_FinalizeThenPersist ==
    /\ [](/\ heap[GlobalAddr].obj.ro => Len(merged) = N /\ pc \notin {"main", "read"}
          /\ saved # <<>> =>
                /\ heap[GlobalAddr].obj.ro
                /\ saved[Len(saved)] = heap[GlobalAddr].obj
                /\ saved[Len(saved)] = setReadOnly(MergedPrefix(N)))
    /\ [][heap[GlobalAddr].obj.ro => heap'[GlobalAddr] = heap[GlobalAddr]]_vars

\* C8's case: the Index was saved after three merges.
C8_Witness == saved # <<>> /\ Len(merged) = 3 /\ heap[GlobalAddr].obj.ro

\* C9: a merge appends the per-file Index's resolved rows, in order, to the
\* global Index's resolved rows of ref and of loc, and leaves every string
\* table of the global Index without duplicates.  Stated as the claim
\* states it, of the merges readSourcesJson performs.
C9_MergePreservesContent ==
    [][pc = "merging" /\ pc' = "delete" =>
         /\ \A t \in {"ref", "loc"} :
               Resolved(heap'[GlobalAddr].obj, t) =
                 Resolved(heap[GlobalAddr].obj, t) \o Resolved(heap[fileIndex].obj, t)
         /\ \A n \in DOMAIN heap'[GlobalAddr].obj.st :
               NoDuplicates(heap'[GlobalAddr].obj.st[n])]_vars

\* The raw rows of table t of ix.
RawRows(ix, t) == IF t \in DOMAIN ix.tb THEN Range(ix.tb[t].rows) ELSE {}

\* C10: merging A then B and merging B then A into an empty destination
\* give, for ref and for loc, the same set of resolved rows.
C10_OrderIndependent ==
    (m.nab = 2 /\ m.nba = 2) =>
        \A t \in {"ref", "loc"} :
            Range(Resolved(m.ab, t)) = Range(Resolved(m.ba, t))

\* C10's case: both orders were merged into a destination with the schema,
\* and the raw rows of ref differ between the two.
C10_Witness ==
    /\ m.nab = 2
    /\ m.nba = 2
    /\ SchemaOK(m.dst)
    /\ RawRows(m.ab, "ref") # RawRows(m.ba, "ref")
    /\ Range(Resolved(m.ab, "ref")) = Range(Resolved(m.ba, "ref"))

\* The identifier section 4.2 resolves a node to: the referenced
\* declaration's when the node refers to one, its own otherwise.
ResolvedIdentifier(node) == IF node.ref = <<>> THEN node.usr ELSE node.ref[1]

\* The nodes among the first n of the translation unit that carry a
\* non-empty resolved identifier, in order.
FactNodes(n) ==
    SelectSeq([j \in 1..n |-> x.ast[j]], LAMBDA node : ResolvedIdentifier(node) # "")

\* C11: the extractor visits the nodes in depth-first pre-order and prunes
\* nothing, and after the first n nodes, K of which carry a non-empty
\* resolved identifier, ref and loc hold K rows each and the string tables
\* only strings of those K nodes.
C11_TraversalCoverage ==
    x.phase \in {"visit", "readonly", "returned", "merged"} =>
      /\ x.visited = [j \in 1..Len(x.visited) |-> j]
      /\ x.k = Len(x.visited) + 1
      /\ x.phase \in {"readonly", "returned", "merged"} => Len(x.visited) = Len(x.ast)
      /\ Len(x.ix.tb["ref"].rows) = Len(FactNodes(Len(x.visited)))
      /\ Len(x.ix.tb["loc"].rows) = Len(FactNodes(Len(x.visited)))
      /\ Range(x.ix.st["usr"]) =
           { ResolvedIdentifier(node) : node \in Range(FactNodes(Len(x.visited))) }
      /\ Range(x.ix.st["path"]) =
           { nullToBlank(node.file) : node \in Range(FactNodes(Len(x.visited))) }
      /\ Range(x.ix.st["kind"]) =
           { nullToBlank(node.kind) : node \in Range(FactNodes(Len(x.visited))) }

\* C11's case: a translation unit of three nested nodes, the first and the
\* last carrying an identifier and the middle one none, was extracted.
C11_Witness ==
    /\ x.phase = "readonly"
    /\ Len(x.ast) = 3
    /\ x.ast[2].depth = 2
    /\ x.ast[3].depth = 3
    /\ ResolvedIdentifier(x.ast[1]) # ""
    /\ ResolvedIdentifier(x.ast[2]) = ""
    /\ ResolvedIdentifier(x.ast[3]) # ""
    /\ Len(x.ix.tb["ref"].rows) = 2
    /\ Len(x.ix.tb["loc"].rows) = 2

\* C12: every Index the pipeline creates goes from mutable to read-only
\* exactly once and is not written afterwards: a per-file Index a task
\* has delivered is read-only, on the parse-success path and on the
\* parse-failure path, the global Index is read-only from main's
\* setReadOnly on, and an Index that is read-only stays as it is.  Stated
\* as the claim states it; the Index of a file that fails to parse
\* violates it.
C12_ReadOnlyLifecycle ==
    /\ [](\A t \in Tasks :
            task[t].st = "done" => heap[FileAddr(t)].obj.ro)
    /\ [](pc \in {"save", "return", "done"} => heap[GlobalAddr].obj.ro)
    /\ [][\A a \in Addrs :
            (heap[a].status = "alloc" /\ heap[a].obj.ro) =>
                heap'[a].obj = heap[a].obj]_vars

\* C13: the identifier recorded for a visited node is the referenced
\* declaration's whenever its referenced cursor is not null and its own
\* otherwise, and a fact is emitted exactly when that identifier is not
\* empty: the ref rows are, in visiting order, the nodes with a non-empty
\* resolved identifier, each with that identifier in column usr and the
\* node's own line and column, and two rows carry the same usr ID exactly
\* when their nodes resolve to the same identifier (a definition of f and
\* a call of f elsewhere share f's ID).
C13_ResolutionRule ==
    x.phase \in {"visit", "readonly", "returned", "merged"} =>
        LET F == FactNodes(Len(x.visited))
            rows == x.ix.tb["ref"].rows
            R == Resolved(x.ix, "ref")
        IN  /\ Len(rows) = Len(F)
            /\ \A j \in 1..Len(F) :
                  /\ R[j][1] = <<"usr", ResolvedIdentifier(F[j])>>
                  /\ R[j][3] = <<"raw", F[j].line>>
                  /\ R[j][4] = <<"raw", F[j].column>>
            /\ \A j, l \in 1..Len(F) :
                  (rows[j][1] = rows[l][1]) <=>
                      (ResolvedIdentifier(F[j]) = ResolvedIdentifier(F[l]))

\* The definition of f, the definition of g and a call of f were visited:
\* the first and third rows carry f's ID, the second g's.
C13_Witness ==
    /\ x.phase = "readonly"
    /\ Len(x.ast) = 3
    /\ x.ast[1].usr = "f" /\ x.ast[1].ref = <<"f">>
    /\ x.ast[2].usr = "g" /\ x.ast[2].ref = <<>>
    /\ x.ast[3].usr = "" /\ x.ast[3].ref = <<"f">>
    /\ x.ast[3].line # x.ast[1].line
    /\ Len(x.ix.tb["ref"].rows) = 3
    /\ x.ix.tb["ref"].rows[1][1] = x.ix.tb["ref"].rows[3][1]
    /\ x.ix.tb["ref"].rows[2][1] # x.ix.tb["ref"].rows[1][1]

\* The statements of main after readSourcesJson has returned.
Finalized == Range(MainSteps) \cup {"done"}

\* C14: one task, one merge, one discard per record.  The tasks submitted
\* are those of the first nsub records, all N once the first loop is over;
\* each per-file Index is merged exactly once (the merged tasks are
\* 0, 1, 2, ... without repetition, all N at the end); it is deleted
\* right after its merge, before the next result is awaited; the Index
\* being merged or deleted is allocated, a deleted Index is never touched
\* again, and none is allocated once main goes on to finalize.
C14_OneTaskOneMergeOneDiscard ==
    /\ [](pc # "off" =>
            /\ nsub <= N
            /\ { t \in Tasks : task[t].st # "none" } = 0..(nsub - 1)
            /\ pc \in {"await", "merge", "merging", "delete"} \cup Finalized
                  => nsub = N
            /\ merged = UpTo(Len(merged))
            /\ pc \in Finalized => merged = UpTo(N)
            /\ pc \in {"merge", "merging", "delete"}
                  => /\ fileIndex = FileAddr(i)
                     /\ heap[fileIndex].status = "alloc"
            /\ \A k \in 1..Len(merged) :
                  (pc = "delete" /\ k = Len(merged)) \/
                      heap[FileAddr(merged[k])].status = "freed"
            /\ pc \in Finalized
                  => \A t \in Tasks : heap[FileAddr(t)].status # "alloc")
    /\ [][\A a \in Addrs : heap[a].status = "freed" => heap'[a] = heap[a]]_vars

\* Three records: three tasks, three merges, three Indexes deleted.
C14_Witness ==
    /\ pc = "done"
    /\ N = 3
    /\ nsub = 3
    /\ merged = <<0, 1, 2>>
    /\ \A t \in Tasks : heap[FileAddr(t)].status = "freed"

\* The orchestrator's state, by the statement the main thread is at.
Phase ==
    CASE pc \in {"main", "read"} -> "Idle"
      [] pc = "dispatch" -> "Dispatching"
      [] pc = "await" -> "Collecting"
      [] pc \in {"merge", "merging", "delete"} -> "Merging"
      [] OTHER -> "Finalized"

\* The five states in the order the design document lists them.
PhaseRank(p) ==
    CASE p = "Idle" -> 0
      [] p = "Dispatching" -> 1
      [] p = "Collecting" -> 2
      [] p = "Merging" -> 3
      [] OTHER -> 4

\* Collecting and Merging taken as one state.
LoopRank(p) == IF p = "Merging" THEN PhaseRank("Collecting") ELSE PhaseRank(p)

\* C15 as stated: the orchestrator goes through Idle, Dispatching,
\* Collecting, Merging, Finalized and never back: every task is dispatched
\* before any result is collected, every result is collected before the
\* first merge begins, every merge is complete before the global Index is
\* finalized.  The second loop merges result i before it collects result
\* i+1, so this fails for two records.
C15_PhaseOrder_AsStated ==
    /\ [](Len(awaited) > 0 => nsub = N)
    /\ []((pc = "merging" \/ Len(merged) > 0) => Len(awaited) = N)
    /\ [](Phase = "Finalized" => Len(merged) = N)
    /\ [][PhaseRank(Phase') >= PhaseRank(Phase)]_vars

\* C15, amended: Idle, Dispatching, the collect-and-merge loop and
\* Finalized follow one another and are never returned to; every task is
\* dispatched before any result is collected; inside the loop collecting
\* and merging alternate, result i+1 being collected only after result i
\* was merged; every result is collected and every merge complete before
\* the global Index is finalized.
C15_PhaseOrder ==
    /\ []((Len(awaited) > 0 \/ Phase \in {"Collecting", "Merging"}) => nsub = N)
    /\ [](/\ Len(merged) <= Len(awaited)
          /\ Len(awaited) <= Len(merged) + 1
          /\ Phase = "Collecting" => Len(awaited) = Len(merged))
    /\ [][Len(awaited') > Len(awaited) => Len(merged) = Len(awaited)]_vars
    /\ []((Phase = "Finalized" \/ heap[GlobalAddr].obj.ro)
            => Len(awaited) = N /\ Len(merged) = N)
    /\ [][LoopRank(Phase') >= LoopRank(Phase)]_vars

\* Two of three results were collected and merged, the third is still
\* being produced: a merge has been done before the last result arrived.
C15_Witness ==
    /\ Phase = "Collecting"
    /\ N = 3
    /\ awaited = <<0, 1>>
    /\ merged = <<0, 1>>
    /\ task[2].st = "running"

\* The main thread is inside result() of a task that has not finished.
WaitingOn(t) == pc = "await" /\ CollectIndex(i) = t /\ task[t].st # "done"

C17_TaskIsolation ==
    /\ [](\A a \in Addrs : a # GlobalAddr => Cardinality(Mutators(a)) <= 1)
    /\ [](\A t \in Tasks :
            task[t].st = "running" =>
                /\ \A u \in Tasks : u # t => TaskOutput(u) # TaskOutput(t)
                /\ TaskOutput(t) # GlobalAddr
                /\ heap[TaskOutput(t)].status = "unalloc")
    /\ [](pc \in {"merge", "merging", "delete"} =>
            /\ Mutators(fileIndex) = {}
            /\ \E t \in Range(awaited) :
                  /\ t = CollectIndex(i)
                  /\ fileIndex = TaskOutput(t)
                  /\ task[t].st = "done")
    /\ [][\A t \in Tasks :
            heap'[FileAddr(t)].obj # heap[FileAddr(t)].obj =>
                task[t].st # "done" /\ task'[t].st = "done"]_vars

\* The main thread merges the Index of task 0 while two pool threads are
\* writing the Indexes of tasks 1 and 2.
C17_Witness ==
    /\ pc = "merging"
    /\ fileIndex = FileAddr(0)
    /\ Mutators(FileAddr(1)) = {<<"worker", 1>>}
    /\ Mutators(FileAddr(2)) = {<<"worker", 2>>}

\* A resource that, if it was acquired, was released exactly once.
ReleasedOnce(r) == r.released = (IF r.acquired THEN 1 ELSE 0)

\* C18: when an extraction task has returned, on the parse-success path and
\* on the parse-failure path, every resource it acquired (each duplicated
\* argument, the CXIndex, the translation unit) was released exactly once,
\* and nothing is ever released twice.  Stated as the claim states it; the
\* parse-failure path violates it.
C18_ResourceRelease ==
    /\ x.phase # "off" =>
          /\ \A k \in 1..Len(x.args) : x.args[k].released <= 1
          /\ x.cxindex.released <= 1
          /\ x.tu.released <= 1
    /\ x.phase \in {"returned", "merged"} =>
          /\ Len(x.args) = x.nargs
          /\ \A k \in 1..Len(x.args) : ReleasedOnce(x.args[k])
          /\ ReleasedOnce(x.cxindex)
          /\ ReleasedOnce(x.tu)

\* The location row that is the inverse of reference row r
\* (usr, path, line, column, kind): (path, line, column, usr).
InverseOf(r) == <<r[2], r[3], r[4], r[1]>>

\* Tables ref and loc of ix pair up row by row, on the interned IDs.
PairedByID(ix) ==
    /\ Len(ix.tb["ref"].rows) = Len(ix.tb["loc"].rows)
    /\ \A j \in 1..Len(ix.tb["ref"].rows) :
          ix.tb["loc"].rows[j] = InverseOf(ix.tb["ref"].rows[j])

\* Tables ref and loc of ix pair up row by row, on the resolved strings.
PairedByString(ix) ==
    /\ Len(Resolved(ix, "ref")) = Len(Resolved(ix, "loc"))
    /\ \A j \in 1..Len(Resolved(ix, "ref")) :
          Resolved(ix, "loc")[j] = InverseOf(Resolved(ix, "ref")[j])

\* C19: between visitor calls, in every state of a per-file Index, ref and
\* loc have the same number of rows and the i-th loc row is
\* (path, line, column, usr) of the i-th ref row, with the same IDs; after
\* merges the same pairing holds in the destination on resolved strings.
C19_RefLocInverse ==
    /\ x.phase \in {"visit", "readonly", "returned", "merged"} =>
          PairedByID(x.ix) /\ PairedByString(x.ix)
    /\ x.phase = "merged" => PairedByString(x.g)

\* Two facts were extracted and merged into a destination that already
\* held the three facts of b.c, their IDs being translated on the way.
C19_Witness ==
    /\ x.phase = "merged"
    /\ Len(x.ix.tb["ref"].rows) = 2
    /\ "ref" \in DOMAIN x.g.tb
    /\ Len(x.g.tb["ref"].rows) = 5
    /\ Len(x.g.tb["loc"].rows) = 5
    /\ x.g.tb["ref"].rows[5] # x.ix.tb["ref"].rows[2]

\* Every row of table t of ix has the schema's width and, in each
\* foreign-key column, an ID of the string table the schema names.
RowsConform(ix, t) ==
    \A j \in 1..Len(ix.tb[t].rows) :
        /\ Len(ix.tb[t].rows[j]) = Len(ix.tb[t].cols)
        /\ \A c \in 1..Len(ix.tb[t].cols) :
              ix.tb[t].cols[c] # "" =>
                  /\ ix.tb[t].cols[c] \in DOMAIN ix.st
                  /\ ix.tb[t].rows[j][c] \in 0..(Len(ix.st[ix.tb[t].cols[c]]) - 1)

\* C20: every row the extractor appends has its table's width (5 for ref,
\* 4 for loc); every foreign-key value is an ID of the string table the
\* schema names for the column (ref: usr, path, -, -, kind; loc: path, -,
\* -, usr), so it is smaller than that table's size; and no add is
\* refused: a visitor call on a node with a non-empty resolved identifier
\* makes ref and loc one row longer.
C20_SchemaConformance ==
    /\ [](x.phase \in {"visit", "readonly", "returned", "merged"} =>
            /\ x.ix.tb["ref"].cols = <<"usr", "path", "", "", "kind">>
            /\ x.ix.tb["loc"].cols = <<"path", "", "", "usr">>
            /\ \A j \in 1..Len(x.ix.tb["ref"].rows) : Len(x.ix.tb["ref"].rows[j]) = 5
            /\ \A j \in 1..Len(x.ix.tb["loc"].rows) : Len(x.ix.tb["loc"].rows[j]) = 4
            /\ RowsConform(x.ix, "ref")
            /\ RowsConform(x.ix, "loc"))
    /\ [][(x.phase = "visit" /\ x'.visited # x.visited
             /\ ResolvedIdentifier(x.ast[x.k]) # "") =>
            /\ Len(x'.ix.tb["ref"].rows) = Len(x.ix.tb["ref"].rows) + 1
            /\ Len(x'.ix.tb["loc"].rows) = Len(x.ix.tb["loc"].rows) + 1]_vars

\* Three rows were added, the last with the second usr ID, the third path
\* ID and the second kind ID.
C20_Witness ==
    /\ x.phase = "readonly"
    /\ Len(x.ix.tb["ref"].rows) = 3
    /\ x.ix.tb["ref"].rows[3][1] = 1
    /\ x.ix.tb["ref"].rows[3][2] = 2
    /\ x.ix.tb["ref"].rows[3][5] = 1
    /\ Len(x.ix.st["path"]) = 3

============================================================================
